---- MODULE Spec2Model ----
(***************************************************************************)
(* Model of modules/lambda_triage/lambda-src/triage.py: lambda_handler,    *)
(* the GuardDuty finding triage function, and of the four services it      *)
(* calls (S3 put_object, EC2 create_tags, Step Functions start_execution,  *)
(* SNS publish).                                                           *)
(*                                                                         *)
(* Python strings that the handler takes apart or builds (finding ids, S3  *)
(* keys, execution names) are sequences of one-character strings.  A dict  *)
(* entry that may be missing is a set: {} when the key is absent, {v} when *)
(* it is present with value v.                                             *)
(***************************************************************************)
EXTENDS Bags, FiniteSets, Integers, Naturals, Sequences, TLC

(***************************************************************************)
(* Bounds of the model.                                                    *)
(***************************************************************************)
\* longest finding id, in characters
MaxIdLen == 2
\* how many times the runtime delivers the event of one invocation slot
MaxRuns == 2

\* the invocation slots: handlers that may run concurrently
Invocations == {"inv1", "inv2"}

(***************************************************************************)
(* Optional dict entries.                                                  *)
(***************************************************************************)
Absent == {}
Some(v) == {v}
\* dict.get(key, default)
Get(entry, default) == IF entry = Absent THEN default ELSE CHOOSE v \in entry : TRUE

(***************************************************************************)
(* Strings.                                                                *)
(***************************************************************************)
IdChars == {"a", "/", "-"}

RECURSIVE SeqsOfLen(_, _)
SeqsOfLen(S, n) ==
    IF n = 0 THEN {<<>>}
    ELSE {Append(s, c) : s \in SeqsOfLen(S, n - 1), c \in S}

RECURSIVE SeqsUpTo(_, _)
SeqsUpTo(S, n) ==
    IF n = 0 THEN {<<>>} ELSE SeqsOfLen(S, n) \cup SeqsUpTo(S, n - 1)

\* the string 'unknown', the default of detail.get('id', 'unknown')
Unknown == <<"u", "n", "k", "n", "o", "w", "n">>

FindingIds == SeqsUpTo(IdChars, MaxIdLen) \cup {Unknown}

\* str.replace(old, new) for one-character old and new
RECURSIVE Replace(_, _, _)
Replace(s, old, new) ==
    IF s = <<>> THEN <<>>
    ELSE <<IF Head(s) = old THEN new ELSE Head(s)>> \o Replace(Tail(s), old, new)

\* f'findings/{finding_id}.json'
S3Key(finding_id) ==
    <<"f", "i", "n", "d", "i", "n", "g", "s", "/">> \o finding_id
        \o <<".", "j", "s", "o", "n">>

ExecutionNameDropsSlash(finding_id) ==
    <<"I", "R", "-">> \o SelectSeq(finding_id, LAMBDA c : c # "/")

\* f'IR-{finding_id.replace("/", "-")}'
ExecutionName(finding_id) ==
    <<"I", "R", "-">> \o Replace(finding_id, "/", "-")


(***************************************************************************)
(* Finding events: {detail: {id, severity, resource: {resourceType,        *)
(* instanceDetails: {instanceId}}}}, every key optional.                   *)
(***************************************************************************)
InstanceIds == {"", "i-1"}

InstanceDetailsEntries ==
    {Absent} \cup {Some([instanceId |-> Absent])}
        \cup {Some([instanceId |-> Some(n)]) : n \in InstanceIds}

ResourceEntries ==
    {Absent} \cup
    {Some([resourceType |-> t, instanceDetails |-> d]) :
        t \in {Absent, Some("AccessKey"), Some("Instance")},
        d \in InstanceDetailsEntries}

InstanceResource(n) ==
    Some([resourceType |-> Some("Instance"),
          instanceDetails |-> Some([instanceId |-> Some(n)])])

Event(id, severity, resource) ==
    [detail |-> Some([id |-> id, severity |-> severity, resource |-> resource])]

NoDetailEvent == [detail |-> Absent]

\* events that differ in the finding id
IdEvents ==
    {Event(id, Absent, r) :
        id \in {Absent} \cup {Some(f) : f \in FindingIds},
        r \in {Absent, InstanceResource("i-1")}}

\* events of one finding that differ in severity and resource
ResourceEvents ==
    {Event(Some(<<"a">>), s, r) : s \in {Absent, Some(8)}, r \in ResourceEntries}

Events == {NoDetailEvent} \cup IdEvents \cup ResourceEvents

\* events of two findings whose ids differ in one character
ConcurrentEvents ==
    {Event(Some(f), Absent, r) :
        f \in {<<"/">>, <<"-">>}, r \in {Absent, InstanceResource("i-1")}}

(***************************************************************************)
(* Lines 16-18 and 36-40: what the handler reads from the event.           *)
(***************************************************************************)
\* the empty dict the .get(key, {}) calls default to
EmptyDetail == [id |-> Absent, severity |-> Absent, resource |-> Absent]
EmptyResource == [resourceType |-> Absent, instanceDetails |-> Absent]
EmptyInstanceDetails == [instanceId |-> Absent]

\* event.get('detail', {})
Detail(e) == Get(e.detail, EmptyDetail)

FindingIdDefaultsEmpty(e) == Get(Detail(e).id, <<>>)

\* detail.get('id', 'unknown')
FindingId(e) == Get(Detail(e).id, Unknown)

\* detail.get('severity', 0)
Severity(e) == Get(Detail(e).severity, 0)

\* detail.get('resource', {})
Resource(e) == Get(Detail(e).resource, EmptyResource)

\* a Python str or None in a boolean context
Truthy(entry) == entry # Absent /\ Get(entry, "") # ""

TagTargetAnyType(e) ==
    LET instance_id == Get(Resource(e).instanceDetails, EmptyInstanceDetails).instanceId
    IN  IF Truthy(instance_id) THEN instance_id ELSE Absent

\* the instance lines 37-40 select for tagging: {} when the tagging is skipped
TagTarget(e) ==
    IF Resource(e).resourceType = Some("Instance")
    THEN LET instance_details == Get(Resource(e).instanceDetails, EmptyInstanceDetails)
             instance_id == instance_details.instanceId
         IN  IF Truthy(instance_id) THEN instance_id ELSE Absent
    ELSE Absent

(***************************************************************************)
(* json.dumps, as the sequence of tokens it writes: the keys that are      *)
(* there, in order, each with its value and a separator.                   *)
(***************************************************************************)
Quoted(chars) == <<"\"">> \o chars \o <<"\"">>

DumpsEntry(key, entry, value) ==
    IF entry = Absent THEN <<>> ELSE <<key, ":">> \o value \o <<",">>

DumpsInstanceDetails(d) ==
    <<"{">> \o DumpsEntry("instanceId", d.instanceId, <<Get(d.instanceId, "")>>) \o <<"}">>

DumpsResource(r) ==
    <<"{">>
        \o DumpsEntry("resourceType", r.resourceType, <<Get(r.resourceType, "")>>)
        \o DumpsEntry("instanceDetails", r.instanceDetails,
                      DumpsInstanceDetails(Get(r.instanceDetails, EmptyInstanceDetails)))
        \o <<"}">>

DumpsDetail(d) ==
    <<"{">>
        \o DumpsEntry("id", d.id, Quoted(Get(d.id, <<>>)))
        \o DumpsEntry("severity", d.severity, <<ToString(Get(d.severity, 0))>>)
        \o DumpsEntry("resource", d.resource, DumpsResource(Get(d.resource, EmptyResource)))
        \o <<"}">>

\* json.dumps(event)
DumpsEvent(e) ==
    <<"{">> \o DumpsEntry("detail", e.detail, DumpsDetail(Get(e.detail, EmptyDetail)))
        \o <<"}">>

\* json.dumps(message), lines 67-76
DumpsMessage(e) ==
    <<"{", "finding_id", ":">> \o Quoted(FindingId(e))
        \o <<",", "severity", ":", ToString(Severity(e)),
             ",", "resource_type", ":", Get(Resource(e).resourceType, "null"),
             ",", "action", ":", "Triage completed, remediation initiated", "}">>

\* f'GuardDuty Finding Triage: {finding_id}'
Subject(finding_id) == <<"GuardDuty Finding Triage: ">> \o finding_id

ReturnPayloadNoId(e) ==
    [statusCode |-> 200,
     body |-> <<"{", "message", ":", "Triage completed successfully", "}">>]

\* the dict lines 81-87 return
ReturnPayload(e) ==
    [statusCode |-> 200,
     body |-> <<"{", "message", ":", "Triage completed successfully", ",",
                "finding_id", ":">> \o Quoted(FindingId(e)) \o <<"}">>]


(***************************************************************************)
(* The handler's steps: one per external call, in the order of the code.   *)
(***************************************************************************)
ConfigNames == {"EVIDENCE_BUCKET", "STATE_MACHINE_ARN", "SNS_TOPIC_ARN"}

\* the values a deployment gives the three variables
DeployedConfig ==
    [EVIDENCE_BUCKET |-> "evidence-bucket", STATE_MACHINE_ARN |-> "arn:states:ir",
     SNS_TOPIC_ARN |-> "arn:sns:alerts"]

ConfigOfSwapped(step) ==
    CASE step = "put" -> "EVIDENCE_BUCKET"
      [] step = "start" -> "SNS_TOPIC_ARN"
      [] step = "publish" -> "STATE_MACHINE_ARN"

\* the os.environ[...] read that precedes the call of a step (lines 24, 52, 64)
ConfigOf(step) ==
    CASE step = "put" -> "EVIDENCE_BUCKET"
      [] step = "start" -> "STATE_MACHINE_ARN"
      [] step = "publish" -> "SNS_TOPIC_ARN"

NextStepPublishFirst(step, e) ==
    CASE step = "put" -> IF TagTarget(e) # Absent THEN "tag" ELSE "publish"
      [] step = "tag" -> "publish"
      [] step = "publish" -> "start"
      [] step = "start" -> "returned"

\* where the handler is after the call of a step has returned
NextStep(step, e) ==
    CASE step = "put" -> IF TagTarget(e) # Absent THEN "tag" ELSE "start"
      [] step = "tag" -> "start"
      [] step = "start" -> "publish"
      [] step = "publish" -> "returned"

AfterFailureContinues(step, e) == NextStep(step, e)

\* lines 89-91: an exception of any step is printed and raised again
AfterFailure(step, e) == "raised"

StoreOnErrorRollsBack(s, e) == [s EXCEPT ![S3Key(FindingId(e))] = Absent]

\* lines 89-91: the except clause makes no call, so the bucket stays as it is
StoreOnError(s, e) == s

Pending == <<"P", "e", "n", "d", "i", "n", "g">>

TagKeys == {"GuardDutyFinding", "Quarantined"}

\* Tags= of create_tags, lines 44-47
TagList(finding_id) ==
    <<[Key |-> "GuardDutyFinding", Value |-> finding_id],
      [Key |-> "Quarantined", Value |-> Pending]>>

(***************************************************************************)
(* The services, as the handler's calls change them.  A call that raises   *)
(* has changed nothing.                                                    *)
(***************************************************************************)
S3Keys == {S3Key(FindingId(e)) : e \in Events}

PutObjectAppends(s, key, body) ==
    [s EXCEPT ![key] = Some(Get(s[key], <<>>) \o body)]

\* s3_client.put_object: the object under Key becomes Body
PutObjectEffect(s, key, body) == [s EXCEPT ![key] = Some(body)]

\* ec2_client.create_tags: each listed key of the resource gets the listed value
CreateTagsEffect(t, instance, tagList) ==
    [t EXCEPT ![instance] =
        [k \in TagKeys |->
            IF \E n \in DOMAIN tagList : tagList[n].Key = k
            THEN Some(tagList[CHOOSE n \in DOMAIN tagList : tagList[n].Key = k].Value)
            ELSE @[k]]]

\* sfn_client.start_execution: a name already used with another input is
\* rejected (ExecutionAlreadyExists)
NameConflict(execs, name, input) ==
    \E x \in execs : x.name = name /\ x.input # input

VARIABLES
    environ,        \* os.environ: the configuration variables that are set
    pc,             \* pc[i]: where invocation i is
    event,          \* event[i]: the event invocation i was given
    runs,           \* runs[i]: how many times that event has been delivered
    calls,          \* calls[i]: the reads and calls of the current run, in order
    result,         \* result[i]: {} or the payload the current run returned
    prev,           \* prev[i]: the end of the previous run of invocation i
    store,          \* the evidence bucket: key -> {} or {body}
    tags,           \* EC2: instance -> tag key -> {} or {value}
    executions,     \* Step Functions: the executions started
    notifications   \* SNS: the bag of messages published

vars == <<environ, pc, event, runs, calls, result, prev, store, tags, executions,
          notifications>>

Instances == InstanceIds \ {""}

NoStore == [k \in S3Keys |-> Absent]
NoTags == [n \in Instances |-> [k \in TagKeys |-> Absent]]

Init ==
    /\ environ \in {[n \in S |-> DeployedConfig[n]] : S \in SUBSET ConfigNames}
    /\ pc = [i \in Invocations |-> "idle"]
    /\ event = [i \in Invocations |-> NoDetailEvent]
    /\ runs = [i \in Invocations |-> 0]
    /\ calls = [i \in Invocations |-> <<>>]
    /\ result = [i \in Invocations |-> Absent]
    /\ prev = [i \in Invocations |->
                 [pc |-> "idle", calls |-> <<>>, store |-> NoStore, tags |-> NoTags]]
    /\ store = NoStore
    /\ tags = NoTags
    /\ executions = {}
    /\ notifications = EmptyBag

EnvironRead(name, ok) == [api |-> "environ", ok |-> ok, args |-> [name |-> name]]

Call(api, ok, args) == [api |-> api, ok |-> ok, args |-> args]

\* the runtime hands event e to a handler
Invoke(i, e) ==
    /\ pc[i] = "idle"
    /\ pc' = [pc EXCEPT ![i] = "put"]
    /\ event' = [event EXCEPT ![i] = e]
    /\ runs' = [runs EXCEPT ![i] = 1]
    /\ UNCHANGED <<environ, calls, result, prev, store, tags, executions, notifications>>

\* the runtime delivers the event of an ended invocation again
Redeliver(i) ==
    /\ pc[i] \in {"returned", "raised"}
    /\ runs[i] < MaxRuns
    /\ prev' = [prev EXCEPT ![i] =
                  [pc |-> pc[i], calls |-> calls[i], store |-> store, tags |-> tags]]
    /\ pc' = [pc EXCEPT ![i] = "put"]
    /\ runs' = [runs EXCEPT ![i] = @ + 1]
    /\ calls' = [calls EXCEPT ![i] = <<>>]
    /\ result' = [result EXCEPT ![i] = Absent]
    /\ UNCHANGED <<environ, event, store, tags, executions, notifications>>

\* os.environ[name] raises KeyError
ConfigMissing(i, step) ==
    /\ ConfigOf(step) \notin DOMAIN environ
    /\ calls' = [calls EXCEPT ![i] = Append(@, EnvironRead(ConfigOf(step), FALSE))]
    /\ pc' = [pc EXCEPT ![i] = AfterFailure(step, event[i])]
    /\ store' = StoreOnError(store, event[i])
    /\ UNCHANGED <<environ, event, runs, result, prev, tags, executions, notifications>>

\* lines 22-40
PutObject(i) ==
    /\ pc[i] = "put"
    /\ \/ ConfigMissing(i, "put")
       \/ /\ ConfigOf("put") \in DOMAIN environ
          /\ LET finding_id == FindingId(event[i])
                 evidence_bucket == environ[ConfigOf("put")]
                 s3_key == S3Key(finding_id)
                 body == DumpsEvent(event[i])
                 args == [Bucket |-> evidence_bucket, Key |-> s3_key, Body |-> body,
                          ContentType |-> "application/json"]
             IN  \E ok \in BOOLEAN :
                   /\ calls' = [calls EXCEPT ![i] =
                                  @ \o <<EnvironRead(ConfigOf("put"), TRUE),
                                         Call("put_object", ok, args)>>]
                   /\ IF ok
                      THEN /\ store' = PutObjectEffect(store, s3_key, body)
                           /\ pc' = [pc EXCEPT ![i] = NextStep("put", event[i])]
                      ELSE /\ store' = StoreOnError(store, event[i])
                           /\ pc' = [pc EXCEPT ![i] = AfterFailure("put", event[i])]
          /\ UNCHANGED <<environ, event, runs, result, prev, tags, executions,
                         notifications>>

\* lines 41-49
CreateTags(i) ==
    /\ pc[i] = "tag"
    /\ LET finding_id == FindingId(event[i])
           instance_id == Get(TagTarget(event[i]), "")
           args == [Resources |-> <<instance_id>>, Tags |-> TagList(finding_id)]
       IN  \E ok \in BOOLEAN :
             /\ calls' = [calls EXCEPT ![i] = Append(@, Call("create_tags", ok, args))]
             /\ IF ok
                THEN /\ tags' = CreateTagsEffect(tags, instance_id, args.Tags)
                     /\ store' = store
                     /\ pc' = [pc EXCEPT ![i] = NextStep("tag", event[i])]
                ELSE /\ tags' = tags
                     /\ store' = StoreOnError(store, event[i])
                     /\ pc' = [pc EXCEPT ![i] = AfterFailure("tag", event[i])]
    /\ UNCHANGED <<environ, event, runs, result, prev, executions, notifications>>

\* lines 51-61
StartExecution(i) ==
    /\ pc[i] = "start"
    /\ \/ ConfigMissing(i, "start")
       \/ /\ ConfigOf("start") \in DOMAIN environ
          /\ LET finding_id == FindingId(event[i])
                 state_machine_arn == environ[ConfigOf("start")]
                 execution_name == ExecutionName(finding_id)
                 input == DumpsEvent(event[i])
                 args == [stateMachineArn |-> state_machine_arn, name |-> execution_name,
                          input |-> input]
             IN  \E ok \in IF NameConflict(executions, execution_name, input)
                           THEN {FALSE} ELSE BOOLEAN :
                   /\ calls' = [calls EXCEPT ![i] =
                                  @ \o <<EnvironRead(ConfigOf("start"), TRUE),
                                         Call("start_execution", ok, args)>>]
                   /\ IF ok
                      THEN /\ executions' = executions \cup
                                              {[name |-> execution_name, input |-> input]}
                           /\ store' = store
                           /\ pc' = [pc EXCEPT ![i] = NextStep("start", event[i])]
                      ELSE /\ executions' = executions
                           /\ store' = StoreOnError(store, event[i])
                           /\ pc' = [pc EXCEPT ![i] = AfterFailure("start", event[i])]
          /\ UNCHANGED <<environ, event, runs, result, prev, tags, notifications>>

\* lines 63-87
Publish(i) ==
    /\ pc[i] = "publish"
    /\ \/ ConfigMissing(i, "publish")
       \/ /\ ConfigOf("publish") \in DOMAIN environ
          /\ LET finding_id == FindingId(event[i])
                 sns_topic_arn == environ[ConfigOf("publish")]
                 args == [TopicArn |-> sns_topic_arn, Message |-> DumpsMessage(event[i]),
                          Subject |-> Subject(finding_id)]
             IN  \E ok \in BOOLEAN :
                   /\ calls' = [calls EXCEPT ![i] =
                                  @ \o <<EnvironRead(ConfigOf("publish"), TRUE),
                                         Call("publish", ok, args)>>]
                   /\ IF ok
                      THEN /\ notifications' = notifications (+) SetToBag({args})
                           /\ store' = store
                           /\ pc' = [pc EXCEPT ![i] = NextStep("publish", event[i])]
                           /\ result' = [result EXCEPT ![i] =
                                           IF NextStep("publish", event[i]) = "returned"
                                           THEN Some(ReturnPayload(event[i])) ELSE @]
                      ELSE /\ notifications' = notifications
                           /\ store' = StoreOnError(store, event[i])
                           /\ pc' = [pc EXCEPT ![i] = AfterFailure("publish", event[i])]
                           /\ result' = result
          /\ UNCHANGED <<environ, event, runs, prev, tags, executions>>


(***************************************************************************)
(* Spec: two handlers run concurrently, each on one event.                 *)
(***************************************************************************)
Next ==
    \E i \in Invocations :
        \/ \E e \in ConcurrentEvents : Invoke(i, e)
        \/ PutObject(i)
        \/ CreateTags(i)
        \/ StartExecution(i)
        \/ Publish(i)

Spec == Init /\ [][Next]_vars

(***************************************************************************)
(* SpecDelivery: one handler is given any event, and the runtime delivers  *)
(* that event again after the handler has ended.                           *)
(***************************************************************************)
Handler == "inv1"

NextDelivery ==
    \/ \E e \in Events : Invoke(Handler, e)
    \/ Redeliver(Handler)
    \/ PutObject(Handler)
    \/ CreateTags(Handler)
    \/ StartExecution(Handler)
    \/ Publish(Handler)

SpecDelivery == Init /\ [][NextDelivery]_vars


(***************************************************************************)
(* Reading the record of a run.                                            *)
(***************************************************************************)
ExternalApis == {"put_object", "create_tags", "start_execution", "publish"}

ExternalCalls(log) == SelectSeq(log, LAMBDA c : c.api \in ExternalApis)

Apis(log) == [n \in DOMAIN log |-> log[n].api]

Has(log, api) == \E n \in DOMAIN log : log[n].api = api

HasOk(log, api) == \E n \in DOMAIN log : log[n].api = api /\ log[n].ok

HasFailedRead(log, name) ==
    \E n \in DOMAIN log : log[n].api = "environ" /\ ~log[n].ok /\ log[n].args.name = name

IsPrefix(s, t) == Len(s) <= Len(t) /\ \A n \in DOMAIN s : s[n] = t[n]

\* the place of a read or call in put_object -> create_tags -> start_execution -> publish
StepRank(c) ==
    CASE c.api = "put_object" -> 1
      [] c.api = "create_tags" -> 2
      [] c.api = "start_execution" -> 3
      [] c.api = "publish" -> 4
      [] c.api = "environ" ->
            CASE c.args.name = "EVIDENCE_BUCKET" -> 1
              [] c.args.name = "STATE_MACHINE_ARN" -> 3
              [] c.args.name = "SNS_TOPIC_ARN" -> 4

\* the claims' reading of the event: the id of detail.id, when it is there
IdPresent(e) == e.detail # Absent /\ Get(e.detail, EmptyDetail).id # Absent

\* the claims' tagging condition: resourceType is "Instance" and an instance
\* identifier (a non-empty one) is in detail.resource.instanceDetails.instanceId
TaggingApplies(e) ==
    /\ e.detail # Absent
    /\ \E d \in e.detail : \E r \in d.resource :
          /\ r.resourceType = {"Instance"}
          /\ \E det \in r.instanceDetails : \E n \in det.instanceId : n # ""

TaggedInstance(e) ==
    CHOOSE n \in InstanceIds :
        \E d \in e.detail : \E r \in d.resource : \E det \in r.instanceDetails :
            n \in det.instanceId

(***************************************************************************)
(* C1: when a step raises (a configuration read or one of the four calls), *)
(* nothing later in put_object -> create_tags -> start_execution ->        *)
(* publish is called in that invocation, and the invocation ends by        *)
(* raising the error, without a payload.                                   *)
(***************************************************************************)
C1_FirstErrorAborts ==
    \A i \in Invocations :
        /\ \A n \in DOMAIN calls[i] :
              ~calls[i][n].ok =>
                  /\ n = Len(calls[i])
                  /\ pc[i] = "raised"
                  /\ result[i] = Absent
                  /\ \A m \in DOMAIN calls[i] :
                        StepRank(calls[i][m]) <= StepRank(calls[i][n])
        /\ pc[i] = "raised" =>
              calls[i] # <<>> /\ ~calls[i][Len(calls[i])].ok

\* put_object has raised in a run on an instance finding
C1_Witness ==
    \E i \in Invocations :
        /\ pc[i] = "raised"
        /\ TaggingApplies(event[i])
        /\ calls[i][Len(calls[i])].api = "put_object"

(***************************************************************************)
(* C2: while no call fails, the calls are made in the order put_object,    *)
(* create_tags (only when the tagging condition holds), start_execution,   *)
(* publish, each after the one before it has returned; a run that returns  *)
(* has made put_object, start_execution and publish exactly once.          *)
(***************************************************************************)
ExpectedCalls(e) ==
    IF TaggingApplies(e)
    THEN <<"put_object", "create_tags", "start_execution", "publish">>
    ELSE <<"put_object", "start_execution", "publish">>

C2_FixedOrder ==
    \A i \in Invocations :
        LET made == ExternalCalls(calls[i]) IN
        /\ (\A n \in DOMAIN calls[i] : calls[i][n].ok) =>
              IsPrefix(Apis(made), ExpectedCalls(event[i]))
        /\ pc[i] = "returned" =>
              /\ \A n \in DOMAIN calls[i] : calls[i][n].ok
              /\ Apis(made) = ExpectedCalls(event[i])

\* a run on a finding about something that is no instance has returned
C2_Witness ==
    \E i \in Invocations :
        /\ pc[i] = "returned"
        /\ Resource(event[i]).resourceType = Some("AccessKey")

(***************************************************************************)
(* C3: after the evidence write has succeeded, an "Instance" finding with  *)
(* an instance identifier gets exactly one create_tags call, on that       *)
(* instance, with the tags GuardDutyFinding = finding id and Quarantined = *)
(* Pending; any other finding gets none, and the run goes on to            *)
(* start_execution without an error.                                       *)
(***************************************************************************)
C3_ConditionalTagging ==
    \A i \in Invocations :
        LET log == calls[i]
            e == event[i]
            tagCalls == SelectSeq(log, LAMBDA c : c.api = "create_tags")
        IN
        /\ Len(tagCalls) <= 1
        /\ \A n \in DOMAIN tagCalls :
              /\ TaggingApplies(e)
              /\ tagCalls[n].args.Resources = <<TaggedInstance(e)>>
              /\ tagCalls[n].args.Tags =
                    <<[Key |-> "GuardDutyFinding", Value |-> FindingId(e)],
                      [Key |-> "Quarantined", Value |-> Pending]>>
        /\ (log # <<>> /\ log[Len(log)].api = "put_object" /\ log[Len(log)].ok) =>
              pc[i] = IF TaggingApplies(e) THEN "tag" ELSE "start"
        /\ (pc[i] \in {"start", "publish", "returned"} \/ Has(log, "start_execution")) =>
              Len(tagCalls) = IF TaggingApplies(e) THEN 1 ELSE 0

\* an instance finding has been tagged and the run has gone on to the end
C3_Witness ==
    \E i \in Invocations :
        /\ pc[i] = "returned"
        /\ TaggingApplies(event[i])
        /\ HasOk(calls[i], "create_tags")


(***************************************************************************)
(* C4: when the event of a run that got through the evidence write and the *)
(* tagging step is delivered again, the second run leaves the object under *)
(* findings/{id}.json and the tags of the instance as the first run left   *)
(* them; the execution name it requests is the one the first run           *)
(* requested (already known to the orchestrator when the first start       *)
(* succeeded), and when both runs return the notification is published     *)
(* twice.                                                                  *)
(***************************************************************************)
ThroughTagging(e, log) ==
    /\ HasOk(log, "put_object")
    /\ TaggingApplies(e) => HasOk(log, "create_tags")

RequestedNames(log) ==
    {log[n].args.name : n \in {m \in DOMAIN log : log[m].api = "start_execution"}}

C4_RedeliveryIdempotent ==
    LET i == Handler
        e == event[i]
        first == prev[i]
    IN  (runs[i] >= 2 /\ ThroughTagging(e, first.calls)) =>
            /\ store = first.store
            /\ store[S3Key(FindingId(e))] = Some(DumpsEvent(e))
            /\ tags = first.tags
            /\ \A a \in RequestedNames(first.calls) : \A b \in RequestedNames(calls[i]) :
                  a = b
            /\ (HasOk(first.calls, "start_execution") /\ Has(calls[i], "start_execution")) =>
                  \E x \in executions : RequestedNames(calls[i]) = {x.name}
            /\ (first.pc = "returned" /\ pc[i] = "returned") =>
                  \E m \in BagToSet(notifications) :
                      /\ m.Subject = Subject(FindingId(e))
                      /\ CopiesIn(m, notifications) >= 2

\* an instance finding was triaged to the end twice
C4_Witness ==
    /\ runs[Handler] = 2
    /\ prev[Handler].pc = "returned"
    /\ pc[Handler] = "returned"
    /\ TaggingApplies(event[Handler])

(***************************************************************************)
(* C5 as claimed: an evidence object, once written, keeps the content that *)
(* was first written under its key.                                        *)
(***************************************************************************)
C5_NeverMutated ==
    [][\A k \in S3Keys : store[k] # Absent => store'[k] = store[k]]_vars

(***************************************************************************)
(* C5, amended: an evidence object, once written, is never deleted, and    *)
(* its content changes only when a put_object of an invocation whose event *)
(* has the same key succeeds, to the serialization of that event; a step   *)
(* that fails leaves the bucket as it is.                                  *)
(***************************************************************************)
C5_OnlyOverwritten ==
    [][\A k \in S3Keys :
          /\ store[k] # Absent => store'[k] # Absent
          /\ store'[k] # store[k] =>
                \E i \in Invocations :
                    /\ pc[i] = "put"
                    /\ k = S3Key(FindingId(event[i]))
                    /\ store'[k] = Some(DumpsEvent(event[i]))
                    /\ calls'[i] # calls[i]
                    /\ calls'[i][Len(calls'[i])].api = "put_object"]_vars

\* a run wrote its evidence and failed at a later step; another run on the same
\* finding id has since replaced the object, which is still there
C5_Witness ==
    \E i \in Invocations : \E j \in Invocations \ {i} :
        /\ pc[i] = "raised"
        /\ HasOk(calls[i], "put_object")
        /\ HasOk(calls[j], "put_object")
        /\ S3Key(FindingId(event[i])) = S3Key(FindingId(event[j]))
        /\ event[i] # event[j]
        /\ store[S3Key(FindingId(event[i]))] = Some(DumpsEvent(event[j]))

(***************************************************************************)
(* C6 as claimed: the three configuration values are read before the first *)
(* external call, so a run that finds one of them missing has made no      *)
(* external call.                                                          *)
(***************************************************************************)
C6_ConfigReadAtStart ==
    \A i \in Invocations :
        (\E n \in DOMAIN calls[i] : calls[i][n].api = "environ" /\ ~calls[i][n].ok) =>
            ExternalCalls(calls[i]) = <<>>

(***************************************************************************)
(* C6, amended: each configuration value is read at most once in a run,    *)
(* right before the call that uses it: the bucket name before put_object,  *)
(* the workflow identifier before start_execution, the channel identifier  *)
(* before publish.  A missing bucket name fails the run before any call; a *)
(* missing workflow identifier after put_object (and create_tags when it   *)
(* applies) and before start_execution; a missing channel identifier after *)
(* start_execution and before publish.                                     *)
(***************************************************************************)
ConfigUsedBy(api) ==
    CASE api = "put_object" -> "EVIDENCE_BUCKET"
      [] api = "start_execution" -> "STATE_MACHINE_ARN"
      [] api = "publish" -> "SNS_TOPIC_ARN"

C6_ConfigReadBeforeUse ==
    \A i \in Invocations :
        LET log == calls[i] IN
        /\ \A n \in DOMAIN log :
              /\ log[n].api \in {"put_object", "start_execution", "publish"} =>
                    /\ n > 1
                    /\ log[n - 1] = EnvironRead(ConfigUsedBy(log[n].api), TRUE)
              /\ log[n].api = "environ" =>
                    /\ log[n].ok <=> log[n].args.name \in DOMAIN environ
                    /\ \A m \in DOMAIN log :
                          (log[m].api = "environ" /\ log[m].args.name = log[n].args.name)
                              => m = n
                    /\ log[n].ok =>
                          /\ n < Len(log)
                          /\ log[n + 1].api \in {"put_object", "start_execution", "publish"}
                          /\ ConfigUsedBy(log[n + 1].api) = log[n].args.name
        /\ HasFailedRead(log, "EVIDENCE_BUCKET") => ExternalCalls(log) = <<>>
        /\ HasFailedRead(log, "STATE_MACHINE_ARN") =>
              /\ HasOk(log, "put_object")
              /\ TaggingApplies(event[i]) => HasOk(log, "create_tags")
              /\ ~Has(log, "start_execution") /\ ~Has(log, "publish")
        /\ HasFailedRead(log, "SNS_TOPIC_ARN") =>
              /\ HasOk(log, "put_object")
              /\ HasOk(log, "start_execution")
              /\ ~Has(log, "publish")

\* the workflow identifier is missing: the run failed after its evidence write
C6_Witness ==
    \E i \in Invocations :
        /\ pc[i] = "raised"
        /\ HasFailedRead(calls[i], "STATE_MACHINE_ARN")
        /\ HasOk(calls[i], "put_object")
        /\ store[S3Key(FindingId(event[i]))] # Absent


(***************************************************************************)
(* C7: the handler returns {statusCode: 200, body: {message: "Triage       *)
(* completed successfully", finding_id: <id>}} with the id taken from the  *)
(* event, only after put_object, start_execution and publish (and          *)
(* create_tags when it applies) have completed without error; a run that   *)
(* fails returns no payload.                                               *)
(***************************************************************************)
ClaimedId(e) == IF IdPresent(e) THEN Get(Get(e.detail, EmptyDetail).id, <<>>) ELSE Unknown

C7_PayloadOnlyOnSuccess ==
    \A i \in Invocations :
        /\ result[i] # Absent <=> pc[i] = "returned"
        /\ pc[i] = "returned" =>
              /\ result[i] =
                    {[statusCode |-> 200,
                      body |-> <<"{", "message", ":", "Triage completed successfully", ",",
                                 "finding_id", ":", "\"">> \o ClaimedId(event[i])
                                    \o <<"\"", "}">>]}
              /\ HasOk(calls[i], "put_object")
              /\ HasOk(calls[i], "start_execution")
              /\ HasOk(calls[i], "publish")
              /\ TaggingApplies(event[i]) => HasOk(calls[i], "create_tags")
              /\ \A n \in DOMAIN calls[i] : calls[i][n].ok

\* a run on an event that carries an id has returned its payload
C7_Witness ==
    \E i \in Invocations :
        /\ pc[i] = "returned"
        /\ IdPresent(event[i])
        /\ Len(FindingId(event[i])) = 2

(***************************************************************************)
(* C8: the key given to put_object is findings/{id}.json when detail.id is *)
(* present and findings/unknown.json when it is absent (or there is no     *)
(* detail); the severity in the notification is 0 when detail.severity is  *)
(* absent.                                                                 *)
(***************************************************************************)
SeverityField(message) ==
    message[(CHOOSE n \in DOMAIN message : message[n] = "severity") + 2]

C8_EvidenceKey ==
    \A i \in Invocations : \A n \in DOMAIN calls[i] :
        LET c == calls[i][n]
            e == event[i]
        IN
        /\ c.api = "put_object" =>
              c.args.Key =
                 IF IdPresent(e)
                 THEN <<"f", "i", "n", "d", "i", "n", "g", "s", "/">>
                        \o Get(Get(e.detail, EmptyDetail).id, <<>>)
                        \o <<".", "j", "s", "o", "n">>
                 ELSE <<"f", "i", "n", "d", "i", "n", "g", "s", "/",
                        "u", "n", "k", "n", "o", "w", "n", ".", "j", "s", "o", "n">>
        /\ (c.api = "publish" /\ Detail(e).severity = Absent) =>
              SeverityField(c.args.Message) = "0"
        /\ (c.api = "publish" /\ Detail(e).severity # Absent) =>
              \E v \in Detail(e).severity : SeverityField(c.args.Message) = ToString(v)

\* an event without detail was stored and its notification published
C8_Witness ==
    \E i \in Invocations :
        /\ event[i] = NoDetailEvent
        /\ HasOk(calls[i], "put_object")
        /\ HasOk(calls[i], "publish")

(***************************************************************************)
(* C9: the execution name given to start_execution is "IR-" followed by    *)
(* the finding id with every "/" replaced by "-" and nothing else changed, *)
(* so it holds no "/"; the input given is the serialized event that was    *)
(* written as evidence.                                                    *)
(***************************************************************************)
C9_ExecutionName ==
    \A i \in Invocations : \A n \in DOMAIN calls[i] :
        LET c == calls[i][n]
            id == ClaimedId(event[i])
        IN  c.api = "start_execution" =>
              /\ Len(c.args.name) = 3 + Len(id)
              /\ SubSeq(c.args.name, 1, 3) = <<"I", "R", "-">>
              /\ \A k \in DOMAIN id :
                    c.args.name[3 + k] = IF id[k] = "/" THEN "-" ELSE id[k]
              /\ \A k \in DOMAIN c.args.name : c.args.name[k] # "/"
              /\ \E m \in 1..(n - 1) :
                    /\ calls[i][m].api = "put_object"
                    /\ calls[i][m].args.Body = c.args.input

\* an execution was requested for a finding id that has a "/" and another character
C9_Witness ==
    \E i \in Invocations :
        /\ Has(calls[i], "start_execution")
        /\ \E k \in DOMAIN FindingId(event[i]) : FindingId(event[i])[k] = "/"
        /\ \E k \in DOMAIN FindingId(event[i]) : FindingId(event[i])[k] = "a"

(***************************************************************************)
(* C10: two invocations on events with distinct finding ids never request  *)
(* the same execution name and never write the same evidence key.          *)
(***************************************************************************)
C10_DistinctIdsDistinctNames ==
    \A i \in Invocations : \A j \in Invocations \ {i} :
        FindingId(event[i]) # FindingId(event[j]) =>
            \A n \in DOMAIN calls[i] : \A m \in DOMAIN calls[j] :
                /\ (calls[i][n].api = "start_execution"
                        /\ calls[j][m].api = "start_execution") =>
                      calls[i][n].args.name # calls[j][m].args.name
                /\ (calls[i][n].api = "put_object" /\ calls[j][m].api = "put_object") =>
                      calls[i][n].args.Key # calls[j][m].args.Key

====
